---- MODULE Spec2Model ----
(***************************************************************************)
(* A model of src/streamlit_app.py: the R-STEP calculator front end.       *)
(*                                                                         *)
(* The script main() runs top to bottom on every user interaction (one     *)
(* "render pass").  Its state is st.session_state (a key/value store), the *)
(* memoised schema, and what the pass put on the page.  JSON / Python      *)
(* values are modelled as tagged records, strings as atomic strings over a *)
(* small universe on which str(), strip(), float() and the sort order are  *)
(* given by tables.                                                        *)
(***************************************************************************)
EXTENDS Integers, Sequences, FiniteSets, TLC

(***************************************************************************)
(* Values                                                                  *)
(***************************************************************************)
\* Python None, a str, a number, and a dict (only its key set matters),
\* a list (only its being a list matters).
None == [k |-> "none", s |-> "", n |-> 0, keys |-> {}]
S(x) == [k |-> "str", s |-> x, n |-> 0, keys |-> {}]
N(i) == [k |-> "num", s |-> "", n |-> i, keys |-> {}]
D(ks) == [k |-> "dict", s |-> "", n |-> 0, keys |-> ks]
L == [k |-> "list", s |-> "", n |-> 0, keys |-> {}]

\* The label of the "no selection" option, "— select —" in the source.
Placeholder == "-- select --"

\* The numbers of the model are 0 .. MaxNum.
MaxNum == 3

\* Python truthiness of a value.
Truthy(v) ==
    CASE v.k = "none" -> FALSE
      [] v.k = "str" -> v.s # ""
      [] v.k = "num" -> v.n # 0
      [] v.k = "dict" -> v.keys # {}
      [] OTHER -> TRUE

\* str(i) for the numbers of the model.
NumStr(i) ==
    CASE i = 0 -> "0" [] i = 1 -> "1" [] i = 2 -> "2" [] i = 3 -> "3"
      [] i = 4 -> "4" [] i = 5 -> "5" [] OTHER -> "6"

\* str(v)
Str(v) ==
    CASE v.k = "str" -> v.s
      [] v.k = "num" -> NumStr(v.n)
      [] v.k = "none" -> "None"
      [] v.k = "list" -> "[]"
      [] OTHER -> "{}"

\* s.strip() on the strings of the model: the padded strings lose their
\* blanks, every other string has none to lose.
Strip(s) ==
    CASE s = " A " -> "A"
      [] s = " X " -> "X"
      [] s = " " -> ""
      [] OTHER -> s

\* The strings of the model in Python's sort order (code points).
StrOrder ==
    << "", " ", " A ", " X ", "0", "1", "2", "3", "4", "5", "6",
       "A", "B", "None", "X", "Y", "Z", "[]", "abc", "{}", Placeholder >>

Rank(s) == CHOOSE i \in 1..Len(StrOrder) : StrOrder[i] = s

\* sorted(set_of_strings)
RECURSIVE Sorted(_)
Sorted(set) ==
    IF set = {} THEN << >>
    ELSE LET m == CHOOSE x \in set : \A y \in set : Rank(x) <= Rank(y)
         IN << m >> \o Sorted(set \ {m})

Range(seq) == { seq[i] : i \in 1..Len(seq) }

\* sorted(list_of_strings): duplicates are kept.
RECURSIVE SortedList(_)
SortedList(seq) ==
    IF Len(seq) = 0 THEN << >>
    ELSE LET i == CHOOSE a \in 1..Len(seq) : \A b \in 1..Len(seq) : Rank(seq[a]) <= Rank(seq[b])
         IN << seq[i] >> \o SortedList(SubSeq(seq, 1, i - 1) \o SubSeq(seq, i + 1, Len(seq)))

\* list.index(x), 0-based; -1 stands for the ValueError of a missing x.
Index(seq, x) ==
    IF x \in Range(seq)
    THEN (CHOOSE i \in 1..Len(seq) : seq[i] = x /\ \A j \in 1..(i-1) : seq[j] # x) - 1
    ELSE -1

\* float(s) for a str: the numerals parse, nothing else does (-1: ValueError).
ParseNum(s) ==
    CASE s = "0" -> 0 [] s = "1" -> 1 [] s = "2" -> 2 [] s = "3" -> 3
      [] s = "4" -> 4 [] s = "5" -> 5 [] s = "6" -> 6 [] OTHER -> -1

\* _to_float(x): None for None, "" and whatever float() rejects.
_to_float(x) ==
    CASE x.k = "none" -> None
      [] x.k = "num" -> N(x.n)
      [] x.k = "str" -> IF x.s = "" \/ ParseNum(Strip(x.s)) < 0 THEN None
                        ELSE N(ParseNum(Strip(x.s)))
      [] OTHER -> None

\* _stringify_options that also sorts, as the township fallback does.
_stringify_options_sorted(ev) == SortedList([i \in 1..Len(ev) |-> Str(ev[i])])

\* _stringify_options(ev)
_stringify_options(ev) == [i \in 1..Len(ev) |-> Str(ev[i])]

(***************************************************************************)
(* st.session_state: a function from the keys present to their values.     *)
(***************************************************************************)
Key(prefix, name) == prefix \o ":" \o name

Get(ss, key) == IF key \in DOMAIN ss THEN ss[key] ELSE None
GetOr(ss, key, dflt) == IF key \in DOMAIN ss THEN ss[key] ELSE dflt
Put(ss, key, v) == [x \in DOMAIN ss \cup {key} |-> IF x = key THEN v ELSE ss[x]]

(***************************************************************************)
(* The county / township lookup lists                                      *)
(***************************************************************************)
\* (r.get(f) or ""), stringified and stripped: _init_county_lists_from_schema
OrEmpty(v) == IF Truthy(v) THEN Strip(Str(v)) ELSE Strip(Str(S("")))

\* The pairs _init_county_lists_from_schema keeps: both parts non-blank.
InitPairs(pairs) ==
    { p \in { << OrEmpty(pairs[i].county), OrEmpty(pairs[i].township) >> :
                 i \in 1..Len(pairs) } : p[1] # "" /\ p[2] # "" }

\* COUNTY_OPTIONS after _init_county_lists_from_schema
COUNTY_OPTIONS(pairs) == Sorted({ p[1] : p \in InitPairs(pairs) })

\* TOWNSHIPS_BY_COUNTY after _init_county_lists_from_schema
TOWNSHIPS_BY_COUNTY(pairs) ==
    [ c \in { p[1] : p \in InitPairs(pairs) } |->
        Sorted({ p[2] : p \in { q \in InitPairs(pairs) : q[1] = c } }) ]

\* main's own county_to_townships: str(p.get(f, "")).strip(), both non-blank,
\* each list sorted(set(...)).
MainPairs(pairs) ==
    { p \in { << Strip(Str(pairs[i].county)), Strip(Str(pairs[i].township)) >> :
                 i \in 1..Len(pairs) } : p[1] # "" /\ p[2] # "" }

\* The townships paired with county c in the order of the pairs, duplicates
\* kept: county_to_townships as lines 251-256 leave it.
RECURSIVE TownshipsInOrder(_, _)
TownshipsInOrder(pairs, c) ==
    IF Len(pairs) = 0 THEN << >>
    ELSE (IF Strip(Str(Head(pairs).county)) = c /\ Strip(Str(Head(pairs).township)) # ""
          THEN << Strip(Str(Head(pairs).township)) >> ELSE << >>)
         \o TownshipsInOrder(Tail(pairs), c)

\* county_to_townships with the sorting and de-duplication of lines 259-260
\* left out.
county_to_townships_unsorted(pairs) ==
    [ c \in { p[1] : p \in MainPairs(pairs) } |-> TownshipsInOrder(pairs, c) ]

county_to_townships(pairs) ==
    [ c \in { p[1] : p \in MainPairs(pairs) } |->
        Sorted({ p[2] : p \in { q \in MainPairs(pairs) : q[1] = c } }) ]

all_counties(pairs) == Sorted(DOMAIN county_to_townships(pairs))

\* The lookup lists one pass works with: the module globals set by
\* _init_county_lists_from_schema (line 242) and main's own (lines 249-261).
Lists(pairs) ==
    [ COUNTY_OPTIONS |-> COUNTY_OPTIONS(pairs),
      TOWNSHIPS_BY_COUNTY |-> TOWNSHIPS_BY_COUNTY(pairs),
      county_to_townships |-> county_to_townships(pairs),
      all_counties |-> all_counties(pairs) ]

\* dict.get(key, []) of a county -> townships map, for a key that is a value
MapGet(map, v) == IF v.k = "str" /\ v.s \in DOMAIN map THEN map[v.s] ELSE << >>

(***************************************************************************)
(* Widgets                                                                 *)
(***************************************************************************)
\* What one widget call puts on the page.  `ss` is the session state as the
\* call leaves it for the widget (render_field may clear the township key
\* first).
Widget(kind, key, options, index, value, minv, maxv, ss) ==
    [ widget |-> kind, key |-> key, options |-> options, index |-> index,
      value |-> value, min_value |-> minv, max_value |-> maxv, ss |-> ss ]

\* _selectbox_with_placeholder
_selectbox_with_placeholder(options, key, current_value, ss) ==
    LET opts == << Placeholder >> \o options
        cur == IF current_value.k = "none" THEN "" ELSE Str(current_value)
        idx == IF Index(opts, cur) < 0 THEN 0 ELSE Index(opts, cur)
    IN Widget("selectbox", key, opts, idx, None, None, None, ss)

IsNonEmptyList(ev) == ev.isList /\ Len(ev.items) > 0

\* render_field's numeric branch: the value, min_value and max_value it
\* hands to st.number_input.
NumberValue(row, current_value) ==
    LET val == _to_float(current_value)
        dflt == _to_float(row.Default)
    IN IF val.k # "none" THEN val
       ELSE IF Truthy(dflt) THEN dflt ELSE N(0)

\* render_field(row, key_prefix, current_value), with the module globals and
\* the session state it reads as parameters.
render_field(row, key_prefix, current_value, ss, CO, TBC) ==
    LET name_key == row.Name
        key == Key(key_prefix, name_key)
        ev == row.EnumValues
    IN IF name_key = "county" /\ Len(CO) > 0
       THEN _selectbox_with_placeholder(CO, key, Get(ss, key), ss)
       ELSE IF name_key = "township" /\ DOMAIN TBC # {}
       THEN LET selected_county == Get(ss, "global:county")
                towns == MapGet(TBC, selected_county)
                cur_val == Get(ss, key)
                stale == Truthy(cur_val) /\ Str(cur_val) \notin Range(towns)
            IN IF stale
               THEN _selectbox_with_placeholder(towns, key, S(""), Put(ss, key, S("")))
               ELSE _selectbox_with_placeholder(towns, key, cur_val, ss)
       ELSE IF IsNonEmptyList(ev)
       THEN LET options == _stringify_options(ev.items)
                cur == IF current_value.k = "none" THEN "" ELSE Str(current_value)
                idx == IF Index(options, cur) < 0 THEN 0 ELSE Index(options, cur)
            IN Widget("selectbox", key, options, idx, None, None, None, ss)
       ELSE IF row.Type \in {"number", "percentage"}
       THEN Widget("number_input", key, << >>, 0, NumberValue(row, current_value),
                   _to_float(row.Min), _to_float(row.Max), ss)
       ELSE Widget("text_input", key, << >>, 0,
                   IF current_value.k = "none" THEN S("") ELSE S(Str(current_value)),
                   None, None, ss)

(***************************************************************************)
(* Streamlit's keyed widgets                                               *)
(***************************************************************************)
\* The value a keyed widget takes and stores under its key.  A key already
\* in the session state wins over index= / value=.  A selectbox whose stored
\* value is none of its options either keeps that value or falls back to
\* the option at index=, depending on the Streamlit release: `keep` says
\* which.
WidgetValue(w, keep) ==
    IF w.key \in DOMAIN w.ss
    THEN IF w.widget = "selectbox"
            /\ ~(w.ss[w.key].k = "str" /\ w.ss[w.key].s \in Range(w.options))
            /\ ~keep
         THEN S(w.options[w.index + 1])
         ELSE w.ss[w.key]
    ELSE IF w.widget = "selectbox" THEN S(w.options[w.index + 1]) ELSE w.value

\* What the page keeps of a rendered widget: the descriptor's name and scope,
\* the arguments of the call, and the value stored under the key at the
\* moment of the call.
Rendered(w, name, scope) ==
    [ widget |-> w.widget, name |-> name, scope |-> scope,
      options |-> w.options, index |-> w.index, value |-> w.value,
      min_value |-> w.min_value, max_value |-> w.max_value,
      stored |-> Get(w.ss, w.key) ]

(***************************************************************************)
(* main(): the global inputs                                               *)
(***************************************************************************)
\* x in list_of_strings, for a value x
InList(v, seq) == v.k = "str" /\ v.s \in Range(seq)

\* main's fallback for an empty township list (lines 323-327): the sorted,
\* stripped, non-blank EnumValues of the first global row named township
\* whose EnumValues is a list.
RECURSIVE StrippedNonBlank(_)
StrippedNonBlank(items) ==
    IF Len(items) = 0 THEN << >>
    ELSE (IF Strip(Str(Head(items))) # "" THEN << Strip(Str(Head(items))) >> ELSE << >>)
         \o StrippedNonBlank(Tail(items))

TownshipFallback(globals_rows) ==
    LET hits == { i \in 1..Len(globals_rows) :
                    globals_rows[i].Name = "township" /\ globals_rows[i].EnumValues.isList }
    IN IF hits = {} THEN << >>
       ELSE LET i == CHOOSE a \in hits : \A b \in hits : a <= b
            IN SortedList(StrippedNonBlank(globals_rows[i].EnumValues.items))

\* The township options main offers (lines 319-327), placeholder excluded.
TownshipOptions(ss, globals_rows, lists) ==
    LET c == GetOr(ss, "global:county", S(""))
        t_options == IF Truthy(c) THEN MapGet(lists.county_to_townships, c) ELSE << >>
    IN IF Len(t_options) = 0 THEN TownshipFallback(globals_rows) ELSE t_options

\* SanitizeTownship without the sanitising: the stored value is left as is.
SanitizeTownship_skipped(ss, options) == ss

\* main's sanitising of the stored township before the selectbox (lines
\* 332-337): the value the key holds when the widget is created.
SanitizeTownship(ss, options) ==
    LET cur_val == GetOr(ss, "global:township", S(""))
    IN IF InList(cur_val, options) THEN ss
       ELSE Put(ss, "global:township", S(Placeholder))

\* One iteration of the loop over globals_rows (lines 292-355).  acc carries
\* the session state, globals_vals, the widgets rendered so far and the local
\* current_township.
GlobalRow(row, acc, globals_rows, lists, keep) ==
    LET name == row.Name
        key == Key("global", name)
    IN IF name = "county"
       THEN LET options == << Placeholder >> \o lists.all_counties
                idx == IF InList(acc.current_county, options)
                       THEN Index(options, acc.current_county.s) ELSE 0
                w == Widget("selectbox", key, options, idx, None, None, None, acc.ss)
                sel == WidgetValue(w, keep)
                gc == IF sel = S(Placeholder) THEN S("") ELSE sel
                stale == /\ Truthy(gc)
                         /\ Truthy(acc.current_township)
                         /\ ~InList(acc.current_township,
                                    MapGet(lists.county_to_townships, gc))
                ss1 == Put(acc.ss, key, sel)
            IN [ acc EXCEPT
                   !.ss = IF stale THEN Put(ss1, "global:township", S("")) ELSE ss1,
                   !.current_township = IF stale THEN S("") ELSE @,
                   !.globals_vals = Put(@, "county", gc),
                   !.widgets = Put(@, key, Rendered(w, name, "global")) ]
       ELSE IF name = "township"
       THEN LET options == << Placeholder >> \o TownshipOptions(acc.ss, globals_rows, lists)
                ss1 == SanitizeTownship(acc.ss, options)
                cur_val == GetOr(ss1, key, S(""))
                idx == IF Index(options, Str(cur_val)) < 0 \/ cur_val.k # "str"
                       THEN 0 ELSE Index(options, cur_val.s)
                w == Widget("selectbox", key, options, idx, None, None, None, ss1)
                sel == WidgetValue(w, keep)
            IN [ acc EXCEPT
                   !.ss = Put(ss1, key, sel),
                   !.globals_vals = Put(@, "township",
                                        IF sel = S(Placeholder) THEN S("") ELSE sel),
                   !.widgets = Put(@, key, Rendered(w, name, "global")) ]
       ELSE LET w == render_field(row, "global", None, acc.ss,
                                  lists.COUNTY_OPTIONS, lists.TOWNSHIPS_BY_COUNTY)
                val == WidgetValue(w, keep)
            IN [ acc EXCEPT
                   !.ss = Put(w.ss, key, val),
                   !.globals_vals = Put(@, name, val),
                   !.widgets = Put(@, key, Rendered(w, name, "global")) ]

RECURSIVE RenderGlobals(_, _, _, _, _)
RenderGlobals(rows, i, acc, lists, keep) ==
    IF i > Len(rows) THEN acc
    ELSE RenderGlobals(rows, i + 1, GlobalRow(rows[i], acc, rows, lists, keep), lists, keep)

(***************************************************************************)
(* main(): per-calculator inputs and the payload                           *)
(***************************************************************************)
\* global_names left empty: nothing is taken for a global.
global_names_empty(schema) == {}

\* global_names (line 246)
global_names(schema) == { schema.globals[i].Name : i \in 1..Len(schema.globals) }

\* rows of a calculator that are shown: those not named like a global
\* (line 362).
ShownRows(c, schema) ==
    LET NotGlobal(r) == r.Name \notin global_names(schema)
    IN SelectSeq(c.inputs, NotGlobal)

CalcPrefix(c) == "calc:" \o c.id

\* One iteration of the loop over a calculator's shown rows (lines 367-370).
CalcRow(row, c, acc, lists, keep) ==
    LET key == Key(CalcPrefix(c), row.Name)
        val == Get(acc.ss, key)
        w == render_field(row, CalcPrefix(c), val, acc.ss,
                          lists.COUNTY_OPTIONS, lists.TOWNSHIPS_BY_COUNTY)
    IN [ acc EXCEPT
           !.ss = Put(w.ss, key, WidgetValue(w, keep)),
           !.widgets = Put(@, key, Rendered(w, row.Name, CalcPrefix(c))) ]

RECURSIVE RenderRows(_, _, _, _, _, _)
RenderRows(rows, i, c, acc, lists, keep) ==
    IF i > Len(rows) THEN acc
    ELSE RenderRows(rows, i + 1, c, CalcRow(rows[i], c, acc, lists, keep), lists, keep)

\* The loop over the calculators (lines 358-370): only the selected ones.
RECURSIVE RenderCalcs(_, _, _, _, _, _)
RenderCalcs(schema, i, selected, acc, lists, keep) ==
    IF i > Len(schema.calculators) THEN acc
    ELSE LET c == schema.calculators[i]
         IN RenderCalcs(schema, i + 1, selected,
                IF c.id \in selected
                THEN RenderRows(ShownRows(c, schema), 1, c, acc, lists, keep)
                ELSE acc,
                lists, keep)

\* per (lines 377-384) for one calculator: its inputs that are not named
\* like a global and whose key is in the session state.
PerCalc(c, schema, ss) ==
    LET names == { nm \in { c.inputs[i].Name : i \in 1..Len(c.inputs) } :
                     /\ nm \notin global_names(schema)
                     /\ Key(CalcPrefix(c), nm) \in DOMAIN ss }
    IN [ nm \in names |-> ss[Key(CalcPrefix(c), nm)] ]

\* overrides (lines 373-386): selected calculators with a non-empty per.
Overrides(schema, selected, ss) ==
    LET cs == { schema.calculators[i] : i \in 1..Len(schema.calculators) }
        kept == { c \in cs : c.id \in selected /\ DOMAIN PerCalc(c, schema, ss) # {} }
    IN [ cid \in { c.id : c \in kept } |->
           PerCalc(CHOOSE c \in kept : c.id = cid, schema, ss) ]

\* The left column of main up to the payload (lines 281-392), from the
\* session state ss0 at the start of the script.
LeftColumn(schema, ss0, selected, keep) ==
    LET acc0 == [ ss |-> ss0, globals_vals |-> << >>, widgets |-> << >>,
                  current_county |-> GetOr(ss0, "global:county", S("")),
                  current_township |-> GetOr(ss0, "global:township", S("")) ]
        lists == Lists(schema.pairs)
        acc1 == RenderGlobals(schema.globals, 1, acc0, lists, keep)
        acc2 == RenderCalcs(schema, 1, selected, acc1, lists, keep)
    IN [ ss |-> acc2.ss, widgets |-> acc2.widgets,
         payload |-> [ selected_calculators |-> selected,
                       globals |-> acc2.globals_vals,
                       overrides |-> Overrides(schema, selected, acc2.ss) ] ]

(***************************************************************************)
(* main(): the results column                                              *)
(***************************************************************************)
\* The test of line 424 with "and" for its last "or": an object lacking only
\* one of the two keys counts as a table.
IsScalarEntry_and(val) ==
    val.k = "none" \/ val.k # "dict" \/ ("columns" \notin val.keys /\ "rows" \notin val.keys)

\* The test of line 424: the entry goes to scalars.
IsScalarEntry(val) ==
    val.k = "none" \/ val.k # "dict" \/ "columns" \notin val.keys \/ "rows" \notin val.keys

\* scalars and arrays of one block (lines 422-428), as sets of metric names.
Partition(block) ==
    LET entries == IF block.isNull THEN << >> ELSE block.entries
    IN [ scalars |-> { nm \in DOMAIN entries : IsScalarEntry(entries[nm]) },
         arrays |-> { nm \in DOMAIN entries : ~IsScalarEntry(entries[nm]) } ]

NoResults == [ present |-> FALSE, map |-> << >> ]
Stored(m) == [ present |-> TRUE, map |-> m ]

\* The results column (lines 413-428).  Line 419 calls .keys() on
\* results.get("Setback", {}): a null "Setback" block raises there and ends
\* the pass before any block is partitioned.
ResultsColumn(last_results) ==
    IF ~last_results.present \/ DOMAIN last_results.map = {}
    THEN [ status |-> "none", blocks |-> << >> ]
    ELSE IF "Setback" \in DOMAIN last_results.map /\ last_results.map["Setback"].isNull
    THEN [ status |-> "exception", blocks |-> << >> ]
    ELSE [ status |-> "shown",
           blocks |-> [ cid \in DOMAIN last_results.map |->
                          Partition(last_results.map[cid]) ] ]

(***************************************************************************)
(* Schemas the backend may serve                                           *)
(***************************************************************************)
NoEnum == [ isList |-> FALSE, items |-> << >> ]
Enum(items) == [ isList |-> TRUE, items |-> items ]

Row(name, type, ev, dflt, minv, maxv) ==
    [ Name |-> name, Type |-> type, EnumValues |-> ev,
      Default |-> dflt, Min |-> minv, Max |-> maxv ]

Pair(c, t) == [ county |-> S(c), township |-> S(t) ]

\* lists.countyTownships with a duplicate, padded and blank entries:
\* A -> X, Z and B -> X, Y.
Pairs1 ==
    << Pair("B", "Y"), Pair("A", "X"), Pair("A", "X"), Pair(" A ", "Z"),
       Pair("B", " X "), Pair("", "Z"), Pair("B", " ") >>

CountyRow == Row("county", "string", Enum(<< S("B"), S("A") >>), None, None, None)
TownshipRow == Row("township", "string", Enum(<< S("Z"), S(" X "), S("Y") >>), None, None, None)
ModeRow == Row("mode", "string", Enum(<< N(2), N(1) >>), None, None, None)
RateRow == Row("rate", "number", NoEnum, N(2), N(1), N(2))
NoteRow == Row("note", "string", NoEnum, None, None, None)

\* Every schema lists county before township among its globals, the order
\* line 312-315 (clearing the township from the county's branch) relies on.
\* county and township global; Solar repeats the global county, Wind has no
\* input of its own.
SchemaA ==
    [ globals |-> << CountyRow, TownshipRow >>,
      calculators |-> << [ id |-> "Solar", inputs |-> << CountyRow, ModeRow >> ],
                         [ id |-> "Wind", inputs |-> << TownshipRow >> ] >>,
      pairs |-> Pairs1 ]

\* county global, township an input of a calculator.
SchemaB ==
    [ globals |-> << CountyRow >>,
      calculators |-> << [ id |-> "Solar", inputs |-> << TownshipRow, NoteRow >> ] >>,
      pairs |-> Pairs1 ]

\* county and township inputs of a calculator only.
SchemaC ==
    [ globals |-> << ModeRow >>,
      calculators |-> << [ id |-> "Solar", inputs |-> << CountyRow, TownshipRow, ModeRow >> ] >>,
      pairs |-> Pairs1 ]

\* no lookup list at all.
SchemaD ==
    [ globals |-> << CountyRow, TownshipRow >>,
      calculators |-> << [ id |-> "Solar", inputs |-> << CountyRow, RateRow >> ] >>,
      pairs |-> << >> ]

Schemas == { SchemaA, SchemaB, SchemaC, SchemaD }

all_ids(sch) == { sch.calculators[i].id : i \in 1..Len(sch.calculators) }

\* Result maps the backend may answer with.
Block(entries) == [ isNull |-> FALSE, entries |-> entries ]
NullBlock == [ isNull |-> TRUE, entries |-> << >> ]
Table == D({"columns", "rows"})

AppResults ==
    { ("Solar" :> Block(("total" :> N(1)) @@ ("series" :> Table))) }

(***************************************************************************)
(* State                                                                   *)
(***************************************************************************)
VARIABLES
    schema,        \* what GET /schema answers (fixed for the session)
    cached,        \* load_schema's st.cache_data memo holds the schema
    session,       \* st.session_state: the widget keys
    selected,      \* the value of the module multiselect
    last_results,  \* st.session_state["last_results"]
    pending,       \* the script run that is due: "none", "run", or with the
                   \* Calculate button set "calculate" / "calculate_queued"
    inflight,      \* the script is inside requests.post(/calculate)
    postedBy,      \* the interaction the latest POST was issued for
    page,          \* what the latest pass rendered
    fIn, fOut,     \* render of one descriptor: input and rendered widget
    rIn, rOut      \* render of one result map: input and results column

vars == << schema, cached, session, selected, last_results, pending, inflight,
           postedBy, page, fIn, fOut, rIn, rOut >>

appVars == << schema, cached, session, selected, last_results, pending, inflight,
              postedBy, page >>

NoView == [ status |-> "unrendered", blocks |-> << >> ]
NoPayload == [ selected_calculators |-> {}, globals |-> << >>, overrides |-> << >> ]
NoPage ==
    [ status |-> "none", trigger |-> "none", widgets |-> << >>, hasPayload |-> FALSE,
      payload |-> NoPayload, results |-> NoView, error |-> "none" ]
NoOut == [ widget |-> "none" ]
NoIn == [ scope |-> "none" ]

AppInit ==
    /\ schema \in Schemas
    /\ cached = FALSE
    /\ session = << >>
    /\ selected = all_ids(schema)
    /\ last_results = NoResults
    /\ pending = "run"
    /\ inflight = FALSE
    /\ postedBy = "none"
    /\ page = NoPage

Init ==
    /\ AppInit
    /\ fIn = NoIn /\ fOut = NoOut
    /\ rIn = NoResults /\ rOut = NoView

(***************************************************************************)
(* User interactions.  Each one updates the widget state and asks for a    *)
(* run of the script.                                                      *)
(***************************************************************************)
Idle == pending = "none" /\ ~inflight

\* The values a user can give a rendered widget.
Choices(w) ==
    CASE w.widget = "selectbox" -> { S(w.options[i]) : i \in 1..Len(w.options) }
      [] w.widget = "number_input" ->
             { N(i) : i \in { j \in 0..MaxNum :
                               /\ (w.min_value.k = "num" => j >= w.min_value.n)
                               /\ (w.max_value.k = "num" => j <= w.max_value.n) } }
      [] OTHER -> { S(""), S("abc") }

\* "Rerun" from the app menu.
Rerun ==
    /\ Idle
    /\ pending' = "run"
    /\ UNCHANGED << schema, cached, session, selected, last_results, inflight,
                    postedBy, page, fIn, fOut, rIn, rOut >>

\* The user changes one input widget of the page.
Interact ==
    /\ Idle
    /\ page.status = "rendered"
    /\ \E key \in DOMAIN page.widgets :
         \E v \in Choices(page.widgets[key]) :
            session' = Put(session, key, v)
    /\ pending' = "run"
    /\ UNCHANGED << schema, cached, selected, last_results, inflight,
                    postedBy, page, fIn, fOut, rIn, rOut >>

\* The user changes the module multiselect (line 267).
SelectModules ==
    /\ Idle
    /\ page.status = "rendered"
    /\ \E sel \in SUBSET all_ids(schema) : sel # selected /\ selected' = sel
    /\ pending' = "run"
    /\ UNCHANGED << schema, cached, session, last_results, inflight,
                    postedBy, page, fIn, fOut, rIn, rOut >>

\* The user presses Calculate (line 397) while no request is outstanding.
Calculate ==
    /\ Idle
    /\ page.status = "rendered"
    /\ pending' = "calculate"
    /\ UNCHANGED << schema, cached, session, selected, last_results, inflight,
                    postedBy, page, fIn, fOut, rIn, rOut >>

\* The user presses Calculate again while the script is still inside
\* requests.post: Streamlit queues a run of the script with the button set.
CalculateWhilePosting ==
    /\ inflight
    /\ pending = "none"
    /\ pending' = "calculate_queued"
    /\ UNCHANGED << schema, cached, session, selected, last_results, inflight,
                    postedBy, page, fIn, fOut, rIn, rOut >>

\* "Clear cache" from the app menu: load_schema's memo (line 84) is dropped.
ClearCache ==
    /\ Idle
    /\ cached
    /\ cached' = FALSE
    /\ UNCHANGED << schema, session, selected, last_results, pending, inflight,
                    postedBy, page, fIn, fOut, rIn, rOut >>

(***************************************************************************)
(* The script                                                              *)
(***************************************************************************)
\* main without the st.stop() of line 239.
StopsOnSchemaError_never == FALSE

\* main stops the pass when load_schema raises (lines 237-239, st.stop()).
StopsOnSchemaError == TRUE

\* The page of a pass whose load_schema raised.
ErrorPage(trigger) == [ NoPage EXCEPT !.status = "schema_error", !.trigger = trigger ]

\* The page of a pass that rendered the left column.
LeftPage(status, lc, view) ==
    [ status |-> status, trigger |-> "none", widgets |-> lc.widgets,
      hasPayload |-> TRUE, payload |-> lc.payload, results |-> view, error |-> "none" ]

\* One run of main() up to the Calculate button (lines 221-397).  fetchOk:
\* GET /schema succeeds when it has to be issued.  With the button set the
\* script enters requests.post and stays there until Response; otherwise it
\* goes on to the results column.
Script ==
    /\ pending # "none"
    /\ ~inflight
    /\ \E fetchOk \in (IF cached THEN {TRUE} ELSE BOOLEAN), keep \in BOOLEAN :
         LET loaded == cached \/ fetchOk
             clicked == pending \in {"calculate", "calculate_queued"}
             lc == LeftColumn(schema, session, selected, keep)
         IN /\ cached' = loaded
            /\ IF ~loaded /\ StopsOnSchemaError
               THEN /\ page' = ErrorPage(pending)
                    /\ UNCHANGED << session, inflight, postedBy >>
               ELSE /\ session' = lc.ss
                    /\ inflight' = clicked
                    /\ postedBy' = IF clicked THEN pending ELSE postedBy
                    /\ page' = LeftPage(IF loaded THEN "rendered" ELSE "schema_error",
                                        lc,
                                        IF clicked THEN NoView
                                        ELSE ResultsColumn(last_results))
    /\ pending' = "none"
    /\ UNCHANGED << schema, selected, last_results, fIn, fOut, rIn, rOut >>

\* data.get("results", data) (line 405)
Unwrap(data) == IF data.envelope THEN data.results ELSE data.body

Responses ==
    { [ kind |-> "ok", envelope |-> e, results |-> m, body |-> m ] :
         e \in BOOLEAN, m \in AppResults }
    \cup { [ kind |-> k, envelope |-> FALSE, results |-> << >>, body |-> << >> ] :
              k \in {"http_error", "exception"} }

\* requests.post returns or raises (lines 398-407), then the results column
\* (lines 413-428).  With a run queued behind it the script is stopped at
\* its next st.* call: after line 405 on success, at st.error otherwise.
Response ==
    /\ inflight
    /\ \E r \in Responses :
         /\ last_results' = IF r.kind = "ok" THEN Stored(Unwrap(r)) ELSE last_results
         /\ page' = IF pending = "none"
                    THEN [ page EXCEPT
                             !.results = ResultsColumn(last_results'),
                             !.error = IF r.kind = "ok" THEN "none"
                                       ELSE IF r.kind = "http_error" THEN "API error"
                                       ELSE "Request failed" ]
                    ELSE page
    /\ inflight' = FALSE
    /\ UNCHANGED << schema, cached, session, selected, pending, postedBy,
                    fIn, fOut, rIn, rOut >>

Next ==
    \/ Rerun
    \/ Interact
    \/ SelectModules
    \/ Calculate
    \/ CalculateWhilePosting
    \/ ClearCache
    \/ Script
    \/ Response

Spec == Init /\ [][Next]_vars

(***************************************************************************)
(* One descriptor rendered on its own: render_field, and main's dispatch   *)
(* for a global row, applied to descriptors and current values drawn from  *)
(* bounded sets.                                                           *)
(***************************************************************************)
EnumChoices ==
    { NoEnum, Enum(<< >>), Enum(<< S("B"), S("A") >>), Enum(<< N(2), S(" X "), N(1) >>),
      Enum(<< S("B"), S("") >>) }

Nums == { N(i) : i \in 0..MaxNum }

EnumRows ==
    { Row(nm, "string", ev, None, None, None) :
        nm \in {"county", "township", "mode"}, ev \in EnumChoices }

NumberRows ==
    { r \in { Row("rate", ty, NoEnum, d, mn, mx) :
                ty \in {"number", "percentage"},
                d \in Nums \cup {None, S("abc")},
                mn \in Nums \cup {None},
                mx \in Nums \cup {None} } :
        (r.Min.k = "num" /\ r.Max.k = "num") => r.Min.n <= r.Max.n }

CurrentValues == { None, S(""), S("abc"), S("A"), S("X"), S("2"), N(1), S(Placeholder) }

FieldInputs ==
    { [ row |-> r, scope |-> sc, cur |-> cv, county |-> co, pairs |-> ps ] :
        r \in EnumRows \cup NumberRows,
        sc \in {"global", "calc:Solar"},
        cv \in CurrentValues,
        co \in {None, S("A"), S(Placeholder)},
        ps \in {Pairs1, << >>} }

\* The session state that holds the input's current value and county.
FieldSession(in) ==
    LET key == Key(in.scope, in.row.Name)
        s1 == IF in.county.k = "none" THEN << >> ELSE ("global:county" :> in.county)
    IN IF in.cur.k = "none" THEN s1 ELSE Put(s1, key, in.cur)

\* The widget the descriptor gets: by main's loop over the globals in the
\* global scope (lines 292-355), by line 369-370 in a calculator's.
RenderOne(in) ==
    LET ss == FieldSession(in)
        key == Key(in.scope, in.row.Name)
    IN IF in.scope = "global"
       THEN GlobalRow(in.row,
                      [ ss |-> ss, globals_vals |-> << >>, widgets |-> << >>,
                        current_county |-> GetOr(ss, "global:county", S("")),
                        current_township |-> GetOr(ss, "global:township", S("")) ],
                      << in.row >>, Lists(in.pairs), FALSE).widgets[key]
       ELSE LET w == render_field(in.row, in.scope, Get(ss, key), ss,
                                  COUNTY_OPTIONS(in.pairs), TOWNSHIPS_BY_COUNTY(in.pairs))
            IN Rendered(w, in.row.Name, in.scope)

FieldInit ==
    /\ schema = SchemaA /\ cached = FALSE /\ session = << >>
    /\ selected = all_ids(schema) /\ last_results = NoResults
    /\ pending = "run" /\ inflight = FALSE /\ postedBy = "none" /\ page = NoPage
    /\ fIn \in FieldInputs /\ fOut = NoOut
    /\ rIn = NoResults /\ rOut = NoView

FieldRender ==
    /\ fOut = NoOut
    /\ fOut' = RenderOne(fIn)
    /\ UNCHANGED << appVars, fIn, rIn, rOut >>

FieldNext == FieldRender

FieldSpec == FieldInit /\ [][FieldNext]_vars

(***************************************************************************)
(* One result map rendered on its own: the results column applied to       *)
(* result maps drawn from a bounded set.                                   *)
(***************************************************************************)
ResultValues ==
    { None, N(1), S("abc"), L, D({}), D({"columns"}), D({"rows"}), Table,
      D({"columns", "rows", "label"}) }

ResultBlocks ==
    { Block(("total" :> a) @@ ("series" :> b)) : a \in ResultValues, b \in ResultValues }
    \cup { Block("total" :> a) : a \in ResultValues }
    \cup { Block(<< >>), NullBlock }

ResultInputs ==
    { Stored("Solar" :> b) : b \in ResultBlocks }
    \cup { Stored(("Solar" :> b) @@ ("Setback" :> c)) :
              b \in ResultBlocks, c \in { NullBlock, Block("total" :> Table) } }
    \cup { Stored(<< >>), NoResults }

ResultsInit ==
    /\ schema = SchemaA /\ cached = FALSE /\ session = << >>
    /\ selected = all_ids(schema) /\ last_results = NoResults
    /\ pending = "run" /\ inflight = FALSE /\ postedBy = "none" /\ page = NoPage
    /\ fIn = NoIn /\ fOut = NoOut
    /\ rIn \in ResultInputs /\ rOut = NoView

ResultsRender ==
    /\ rOut = NoView
    /\ rOut' = ResultsColumn(rIn)
    /\ UNCHANGED << appVars, fIn, fOut, rIn >>

ResultsNext == ResultsRender

ResultsSpec == ResultsInit /\ [][ResultsNext]_vars

(***************************************************************************)
(* Properties                                                              *)
(***************************************************************************)
\* The townships lists.countyTownships pairs with county c (blanks stripped,
\* blank names dropped), as the specification states them; none for no
\* county.
PairedTownships(pairs, c) ==
    IF c = "" THEN {}
    ELSE { Strip(pairs[i].township.s) :
             i \in { j \in 1..Len(pairs) : Strip(pairs[j].county.s) = c } } \ {""}

\* The county the page's pass had selected: "" for none.
PageCounty ==
    IF "county" \in DOMAIN page.payload.globals
    THEN page.payload.globals["county"].s ELSE ""

\* The township selectors on the page: the placeholder-led selectboxes of
\* descriptors named township.
TownshipSelectors ==
    { key \in DOMAIN page.widgets :
        /\ page.widgets[key].name = "township"
        /\ page.widgets[key].widget = "selectbox"
        /\ page.widgets[key].options[1] = Placeholder }

IsEmptyValue(v) == v.k = "none" \/ v = S("")

\* The fallback list of the global township selector, from the schema: the
\* sorted, stripped, non-blank EnumValues of the global township descriptor.
SchemaFallback ==
    LET rows == { i \in 1..Len(schema.globals) :
                    schema.globals[i].Name = "township" /\ schema.globals[i].EnumValues.isList }
    IN IF rows = {} THEN << >>
       ELSE LET ev == schema.globals[CHOOSE i \in rows : \A j \in rows : i <= j].EnumValues.items
                strs == { k \in 1..Len(ev) : Strip(Str(ev[k])) # "" }
            IN SortedList([ n \in 1..Cardinality(strs) |->
                              Strip(Str(ev[CHOOSE k \in strs :
                                             Cardinality({ m \in strs : m < k }) = n - 1])) ])

\* C1 as stated: when a township selector is rendered, the value stored under
\* its key is empty or one of the townships paired with the selected county.
C1_StoredEmptyOrPaired ==
    \A key \in TownshipSelectors :
        \/ IsEmptyValue(page.widgets[key].stored)
        \/ /\ page.widgets[key].stored.k = "str"
           /\ page.widgets[key].stored.s \in PairedTownships(schema.pairs, PageCounty)

\* C1 amended: when a township selector is rendered, the value stored under
\* its key is one of the options being rendered (the global selector: the
\* placeholder label or an offered township, never the empty string), or, for
\* a calculator's selector, empty or an offered township.
C1_StoredAmongRenderedOptions ==
    \A key \in TownshipSelectors :
        LET w == page.widgets[key]
        IN IF w.scope = "global"
           THEN w.stored.k = "str" /\ w.stored.s \in Range(w.options)
           ELSE \/ IsEmptyValue(w.stored)
                \/ /\ w.stored.k = "str"
                   /\ w.stored.s \in Range(w.options) \ {Placeholder}

\* C1 witness: with county B selected the global township selector was
\* rendered over B's townships while the stored value is the placeholder
\* label.
C1_Witness ==
    /\ schema = SchemaA
    /\ "global:township" \in TownshipSelectors
    /\ PageCounty = "B"
    /\ page.widgets["global:township"].stored = S(Placeholder)
    /\ page.widgets["global:township"].options = << Placeholder, "X", "Y" >>

C3_OverridesExcludeGlobals ==
    page.hasPayload =>
        \A cid \in DOMAIN page.payload.overrides :
            DOMAIN page.payload.overrides[cid]
               \cap { schema.globals[i].Name : i \in 1..Len(schema.globals) } = {}

\* C3 witness: a payload with an overrides entry for Solar, whose inputs
\* repeat the global county, and with county and township chosen.
C3_Witness ==
    /\ schema = SchemaA
    /\ page.hasPayload
    /\ "Solar" \in DOMAIN page.payload.overrides
    /\ page.payload.overrides["Solar"] = ("mode" :> S("1"))
    /\ page.payload.globals["county"] = S("B")
    /\ page.payload.globals["township"] = S("Y")

\* C4 as stated: a Calculate pressed while a request is outstanding never
\* has a POST issued for it.
C4_NoPostForQueuedCalculate == postedBy # "calculate_queued"

\* C5 as stated: once a submission has failed, no results are stored or
\* shown.
C5_FailureLeavesNoResults ==
    page.error # "none" => (~last_results.present /\ page.results.status = "none")

\* C6: a pass whose load_schema fails renders no widget, builds no payload,
\* writes no session value and issues no POST.
C6_SchemaErrorHalts ==
    [][ (pending # "none" /\ pending' = "none" /\ page'.status = "schema_error")
          => /\ session' = session
             /\ last_results' = last_results
             /\ inflight' = FALSE
             /\ postedBy' = postedBy
             /\ page'.widgets = << >>
             /\ ~page'.hasPayload ]_vars

\* C6 witness: Calculate was pressed on a filled form and the pass ended at
\* the schema error.
C6_Witness ==
    /\ page.status = "schema_error"
    /\ page.trigger = "calculate"
    /\ DOMAIN session # {}
    /\ ~inflight

\* C10 as stated: the placeholder label is no value of a payload's globals
\* nor of any of its overrides entries.
C10_NoPlaceholderInPayload ==
    page.hasPayload =>
        /\ \A nm \in DOMAIN page.payload.globals :
              page.payload.globals[nm] # S(Placeholder)
        /\ \A cid \in DOMAIN page.payload.overrides :
              \A nm \in DOMAIN page.payload.overrides[cid] :
                 page.payload.overrides[cid][nm] # S(Placeholder)

\* The current value render_field is handed for the rendered descriptor:
\* None for a global row (line 355), the stored value otherwise (line 369).
PassedValue == IF fIn.scope = "global" THEN None ELSE fIn.cur

\* The string the selector looks up among its options: "" for None.
PassedString == IF PassedValue.k = "none" THEN "" ELSE Str(PassedValue)

\* The selector shows the stringified EnumValues verbatim and in order,
\* with index 0 when the current value is absent or none of the options.
VerbatimEnum ==
    /\ fOut.widget = "selectbox"
    /\ Len(fOut.options) = Len(fIn.row.EnumValues.items)
    /\ \A i \in 1..Len(fOut.options) : fOut.options[i] = Str(fIn.row.EnumValues.items[i])

\* The descriptor is one the lookup lists take over: a global county or
\* township, or a calculator's county or township while the lookup list has
\* an entry.
TakenOverByLists ==
    /\ fIn.row.Name \in {"county", "township"}
    /\ \/ fIn.scope = "global"
       \/ \E i \in 1..Len(fIn.pairs) :
             /\ Strip(fIn.pairs[i].county.s) # ""
             /\ Strip(fIn.pairs[i].township.s) # ""

\* C7 as stated: every descriptor with a non-empty EnumValues list, whatever
\* its Name and scope, gets the stringified list verbatim, and index 0 when
\* the current value is absent or not among the options.
C7_EnumVerbatimAnyName ==
    (fOut # NoOut /\ IsNonEmptyList(fIn.row.EnumValues)) =>
        /\ VerbatimEnum
        /\ (PassedValue.k = "none" \/ PassedString \notin Range(fOut.options))
              => fOut.index = 0

\* C7 amended: a descriptor with a non-empty EnumValues list that the lookup
\* lists do not take over gets the stringified list verbatim, and index 0
\* when the string of the current value ("" for an absent one) is not among
\* the options.
C7_EnumVerbatimUnlessListed ==
    (fOut # NoOut /\ IsNonEmptyList(fIn.row.EnumValues) /\ ~TakenOverByLists) =>
        /\ VerbatimEnum
        /\ PassedString \notin Range(fOut.options) => fOut.index = 0
        /\ PassedString \in Range(fOut.options)
              => fOut.options[fOut.index + 1] = PassedString

\* C7 witness: a calculator's field with a mixed list and a current value
\* that is none of its options, and a calculator's county rendered
\* generically for want of a lookup list.
C7_Witness ==
    /\ fOut # NoOut
    /\ fIn.scope = "calc:Solar"
    /\ fIn.row.Name = "county"
    /\ fIn.pairs = << >>
    /\ fIn.row.EnumValues = Enum(<< N(2), S(" X "), N(1) >>)
    /\ fIn.cur = S("abc")
    /\ fOut.options = << "2", " X ", "1" >>
    /\ fOut.index = 0

\* A value that parses as a number, and the number.
Parses(v) == v.k = "num" \/ (v.k = "str" /\ ParseNum(Strip(v.s)) >= 0)
Parsed(v) == IF v.k = "num" THEN v.n ELSE ParseNum(Strip(v.s))

Clamp(x, row) ==
    LET lo == IF Parses(row.Min) /\ x < Parsed(row.Min) THEN Parsed(row.Min) ELSE x
    IN IF Parses(row.Max) /\ lo > Parsed(row.Max) THEN Parsed(row.Max) ELSE lo

\* C8 as stated: the numeric input starts at the current value if it parses,
\* else at Default if it parses, else at 0, clamped to Min and Max.
C8_InitialValueClamped ==
    (fOut # NoOut /\ fOut.widget = "number_input") =>
        fOut.value = N(Clamp(IF Parses(PassedValue) THEN Parsed(PassedValue)
                             ELSE IF Parses(fIn.row.Default) THEN Parsed(fIn.row.Default)
                             ELSE 0,
                             fIn.row))

\* An entry shaped as a table: an object with both columns and rows.
TableShaped(val) == val.k = "dict" /\ {"columns", "rows"} \subseteq val.keys

EntriesOf(block) == IF block.isNull THEN << >> ELSE block.entries

====
